---- MODULE Spec2Model ----
(***************************************************************************)
(* Reward economy and grid placement of the funger application: the grass  *)
(* session timer (TouchGrassTimer.tsx), the store triggers of the          *)
(* migrations, the garden component (components/garden/Garden.tsx) and the *)
(* hunger / cookie tracker (HungerTracker.tsx), for one user who has the   *)
(* application open in two browser tabs.                                   *)
(***************************************************************************)
EXTENDS Integers, Sequences, FiniteSets, TLC

\* ------------------------------------------------------------------ bounds
MaxSessions == 2        \* grass_sessions rows created in one behaviour
MaxItems == 2           \* garden_items / garden_ornaments rows created in one behaviour
MaxReplants == 3        \* garden_items rows created in a behaviour of SpecReplant
MaxStock == 2           \* units of one plant kind in user_plant_inventory, SpecReplant and SpecRace
MaxCoord == 1           \* cells (0..MaxCoord, 0) are the ones a user clicks
MaxAwards == 3          \* cookie_rewards rows created in one behaviour
MaxJarAwards == 14     \* cookie_rewards rows created in a behaviour of SpecJar
MaxHunger == 2          \* hunger_records rows created by startHunger

\* ------------------------------------------------------- program constants
GRID_SIZE == 5
PLANT_TYPES == <<"flower", "veggie", "fruit", "tree", "luck">>
VARIANTS == <<"basic", "rare", "epic", "legendary">>
STREAK_GAP_HOURS == 36

PLANT_COSTS(type) ==
  CASE type = "flower" -> 0
    [] type = "veggie" -> 5
    [] type = "fruit" -> 10
    [] type = "tree" -> 15
    [] type = "luck" -> 20
    [] OTHER -> 0

upgradeVariantCosts(variant) ==
  CASE variant = "rare" -> 5
    [] variant = "epic" -> 10
    [] variant = "legendary" -> 15
    [] OTHER -> 0

\* ---------------------------------------------------------- model universe
Clients == {"tabA", "tabB"}
TypeSet == {PLANT_TYPES[i] : i \in 1..Len(PLANT_TYPES)}
VariantSet == {VARIANTS[i] : i \in 1..Len(VARIANTS)}
\* the plant kinds a user picks in the dropdown in this model
PickTypes == {"flower", "veggie"}
PickVariants == {"basic", "rare"}
\* daisies a user may already have earned when the behaviour starts
InitFlowers == {5, 10, 35}
\* hours between two cookie awards
Gaps == {36, 37}
ClickCells == {<<x, 0>> : x \in 0..MaxCoord}
TriggerFns == {"update_garden_stats", "with_ornaments_replace", "with_ornaments_bonus"}
NoSession == 0
NoPlant == [id |-> 0, plant_type |-> "", plant_variant |-> "", position_x |-> -1, position_y |-> -1]

VARIABLES
  \* --- persistent store
  grass_sessions,        \* Seq of [end_time, completed]; the row id is the index
  user_garden_stats,     \* [total_sessions_completed, total_flowers_earned, flowers_available]
  garden_items,          \* set of [id, plant_type, plant_variant, position_x, position_y]
  garden_ornaments,      \* set of [id, position_x, position_y]
  user_plant_inventory,  \* [type -> [variant -> Nat]]
  nextId,                \* next row id of garden_items / garden_ornaments
  completedTriggerFn,    \* function bound to grass_session_completed_trigger
  onUpdateTrigger,       \* TRUE iff on_grass_session_update is installed
  elapsed,               \* sessions whose 30 minutes have passed (the clock)
  \* --- TouchGrassTimer state of each tab
  activeSession, isCompleted, showCelebration,
  \* --- Garden component state of each tab
  gardenItems, gardenOrnaments, gardenStats, inventoryPlants,
  selectedPlantType, selectedPlantVariant, placingPlant, selectedPlant, alertMsg,
  \* --- hunger / cookie store and HungerTracker state of each tab
  hunger_records,        \* Seq of [end_time, manual]
  cookie_rewards,        \* Seq of [created_at, streak_count, hunger_record_id]
  user_cookie_stats,     \* [found, total_cookies, current_streak, longest_streak, last_cookie_date]
  now,                   \* the store clock, in hours
  isHungry, currentSession, cookieCount, isCooldown,
  \* --- history, for stating the properties
  rewardLog,             \* session id -> what the triggers granted for that row
  completeCalls,         \* session ids completeSession was called on
  ledger                 \* [spent, sold, last, rounds]: costs debited, sale values
                         \* credited, the last write of a garden handler, and the
                         \* parity of the reconciliation rounds run so far

storeGrass == <<grass_sessions, user_garden_stats, completedTriggerFn, onUpdateTrigger,
                elapsed, rewardLog, completeCalls>>
storeGarden == <<garden_items, garden_ornaments, user_plant_inventory, nextId, ledger>>
timerVars == <<activeSession, isCompleted, showCelebration>>
gardenVars == <<gardenItems, gardenOrnaments, gardenStats, inventoryPlants,
                selectedPlantType, selectedPlantVariant, placingPlant, selectedPlant,
                alertMsg>>
cookieVars == <<hunger_records, cookie_rewards, user_cookie_stats, now,
                isHungry, currentSession, cookieCount, isCooldown>>
vars == <<storeGrass, storeGarden, timerVars, gardenVars, cookieVars>>

\* ------------------------------------------------------------ store: grass
ZeroGrant == [sessions |-> 0, flowers |-> 0]
OneGrant == [sessions |-> 1, flowers |-> 1]
AddGrant(a, b) == [sessions |-> a.sessions + b.sessions, flowers |-> a.flowers + b.flowers]

\* update_garden_stats(): +1 session, +1 earned, +1 available when NEW.completed
update_garden_stats(newCompleted) ==
  IF newCompleted THEN OneGrant ELSE ZeroGrant

\* on_grass_session_update: AFTER UPDATE, FOR EACH ROW, no WHEN clause
on_grass_session_update(newCompleted) ==
  IF onUpdateTrigger THEN update_garden_stats(newCompleted) ELSE ZeroGrant

\* update_garden_stats_with_ornaments(), "Create Garden Ornaments Feature":
\* the flower is granted only when the 20% roll does not give an ornament
with_ornaments_replace(newCompleted, roll) ==
  IF newCompleted
    THEN [sessions |-> 1, flowers |-> IF roll THEN 0 ELSE 1]
    ELSE ZeroGrant

\* update_garden_stats_with_ornaments(), "Safe Garden Ornaments": always the
\* flower, then UPDATE grass_sessions SET reward_type WHERE id = NEW.id; that
\* nested update (OLD.completed = NEW.completed = true) fires the AFTER UPDATE
\* triggers of the table again
with_ornaments_bonus(newCompleted) ==
  IF newCompleted
    THEN AddGrant(OneGrant, on_grass_session_update(TRUE))
    ELSE ZeroGrant

\* grass_session_completed_trigger: WHEN (OLD.completed = false AND NEW.completed = true)
grass_session_completed_trigger(oldCompleted, newCompleted, roll) ==
  IF ~oldCompleted /\ newCompleted
    THEN CASE completedTriggerFn = "update_garden_stats" -> update_garden_stats(newCompleted)
           [] completedTriggerFn = "with_ornaments_replace" -> with_ornaments_replace(newCompleted, roll)
           [] OTHER -> with_ornaments_bonus(newCompleted)
    ELSE ZeroGrant

\* everything the AFTER UPDATE triggers of grass_sessions add to user_garden_stats
AfterUpdateGrant(oldCompleted, newCompleted, roll) ==
  AddGrant(grass_session_completed_trigger(oldCompleted, newCompleted, roll),
           on_grass_session_update(newCompleted))

ApplyGrant(stats, g) ==
  [total_sessions_completed |-> stats.total_sessions_completed + g.sessions,
   total_flowers_earned |-> stats.total_flowers_earned + g.flowers,
   flowers_available |-> stats.flowers_available + g.flowers]

\* supabase.from('grass_sessions').update({end_time, completed}).eq('id', id)
UpdateGrassSession(id, newCompleted, roll) ==
  LET g == AfterUpdateGrant(grass_sessions[id].completed, newCompleted, roll) IN
  /\ grass_sessions' = [grass_sessions EXCEPT ![id] = [end_time |-> TRUE, completed |-> newCompleted]]
  /\ user_garden_stats' = ApplyGrant(user_garden_stats, g)
  /\ rewardLog' = [rewardLog EXCEPT ![id] = AddGrant(@, g)]

\* ------------------------------------------------------ TouchGrassTimer.tsx
Cell(item) == <<item.position_x, item.position_y>>
OccupiedCells(items, ornaments) == {Cell(i) : i \in items} \cup {Cell(o) : o \in ornaments}

\* row-major scan "for y, for x" for the first cell not in occupied
RECURSIVE FirstEmptyFrom(_, _)
FirstEmptyFrom(k, occupied) ==
  IF k >= GRID_SIZE * GRID_SIZE THEN <<-1, -1>>
  ELSE LET pos == <<k % GRID_SIZE, k \div GRID_SIZE>> IN
       IF pos \notin occupied THEN pos ELSE FirstEmptyFrom(k + 1, occupied)
FirstEmptyPosition(occupied) == FirstEmptyFrom(0, occupied)

\* what the store answers to the ornament branch of completeSession: the
\* check_if_table_exists probe throws, one of the two position reads gives no
\* rows, or the insert into garden_ornaments is refused
OrnamentStore == {"ok", "probe_throws", "items_read_fails", "ornaments_read_fails",
                  "insert_fails"}

\* the ornament branch of completeSession: read both tables, insert at the
\* first empty position; a failed read counts as an empty list, a failed
\* insert and a failed probe are logged and skipped
AddBonusOrnament(isOrnament, ornamentStore) ==
  LET gardenItemsRead == IF ornamentStore = "items_read_fails" THEN {} ELSE garden_items
      gardenOrnamentsRead == IF ornamentStore = "ornaments_read_fails" THEN {}
                             ELSE garden_ornaments
      ornamentFeatureEnabled == ornamentStore # "probe_throws"
      pos == FirstEmptyPosition(OccupiedCells(gardenItemsRead, gardenOrnamentsRead))
  IN
  IF isOrnament /\ ornamentFeatureEnabled /\ pos # <<-1, -1>> /\ ornamentStore # "insert_fails"
    THEN /\ garden_ornaments' = garden_ornaments \cup
              {[id |-> nextId, position_x |-> pos[1], position_y |-> pos[2]]}
         /\ nextId' = nextId + 1
    ELSE UNCHANGED <<garden_ornaments, nextId>>

\* a completeSession in which a failure of the ornament branch reaches the
\* outer catch block
completeSessionBody_aborting(c, id, roll, isOrnament, ornamentStore) ==
  /\ UpdateGrassSession(id, TRUE, roll)
  /\ AddBonusOrnament(isOrnament, ornamentStore)
  /\ completeCalls' = completeCalls \cup {id}
  /\ isCompleted' = [isCompleted EXCEPT ![c] = @ \/ ornamentStore = "ok"]
  /\ showCelebration' = [showCelebration EXCEPT ![c] = @ \/ ornamentStore = "ok"]

completeSessionBody(c, id, roll, isOrnament, ornamentStore) ==
  /\ UpdateGrassSession(id, TRUE, roll)
  /\ AddBonusOrnament(isOrnament, ornamentStore)
  /\ completeCalls' = completeCalls \cup {id}
  /\ isCompleted' = [isCompleted EXCEPT ![c] = TRUE]
  /\ showCelebration' = [showCelebration EXCEPT ![c] = TRUE]

\* the countdown effect: remainingSeconds === 0 && !isCompleted => completeSession()
completeSession(c) ==
  /\ activeSession[c] # NoSession
  /\ activeSession[c] \in elapsed
  /\ ~isCompleted[c]
  /\ \E roll \in BOOLEAN, isOrnament \in BOOLEAN, ornamentStore \in OrnamentStore :
       /\ isOrnament => nextId <= MaxItems
       /\ completeSessionBody(c, activeSession[c], roll, isOrnament, ornamentStore)
  /\ UNCHANGED <<activeSession, completedTriggerFn, onUpdateTrigger, elapsed>>
  /\ UNCHANGED <<garden_items, user_plant_inventory, ledger, gardenVars, cookieVars>>

\* the timeout set by completeSession, 3 seconds later
celebrationTimeout(c) ==
  /\ showCelebration[c]
  /\ showCelebration' = [showCelebration EXCEPT ![c] = FALSE]
  /\ activeSession' = [activeSession EXCEPT ![c] = NoSession]
  /\ UNCHANGED <<isCompleted, storeGrass, storeGarden, gardenVars, cookieVars>>

OpenSessions == {i \in 1..Len(grass_sessions) :
                   ~grass_sessions[i].end_time /\ ~grass_sessions[i].completed}

\* the component mounts (page load): fresh state, then checkForActiveSession;
\* an already expired session is completed at once
checkForActiveSession(c) ==
  LET open == OpenSessions
      latest == CHOOSE i \in open : \A j \in open : j <= i IN
  /\ showCelebration' = [showCelebration EXCEPT ![c] =
        open # {} /\ latest \in elapsed]
  /\ IF open # {}
       THEN /\ activeSession' = [activeSession EXCEPT ![c] = latest]
            /\ IF latest \in elapsed
                 THEN \E roll \in BOOLEAN, isOrnament \in BOOLEAN,
                         ornamentStore \in OrnamentStore :
                        /\ isOrnament => nextId <= MaxItems
                        /\ UpdateGrassSession(latest, TRUE, roll)
                        /\ AddBonusOrnament(isOrnament, ornamentStore)
                        /\ completeCalls' = completeCalls \cup {latest}
                        /\ isCompleted' = [isCompleted EXCEPT ![c] = TRUE]
                 ELSE /\ isCompleted' = [isCompleted EXCEPT ![c] = FALSE]
                      /\ UNCHANGED <<grass_sessions, user_garden_stats, rewardLog,
                                     completeCalls, garden_ornaments, nextId>>
       ELSE /\ activeSession' = [activeSession EXCEPT ![c] = NoSession]
            /\ isCompleted' = [isCompleted EXCEPT ![c] = FALSE]
            /\ UNCHANGED <<grass_sessions, user_garden_stats, rewardLog,
                           completeCalls, garden_ornaments, nextId>>
  /\ UNCHANGED <<completedTriggerFn, onUpdateTrigger, elapsed>>
  /\ UNCHANGED <<garden_items, user_plant_inventory, ledger, gardenVars, cookieVars>>

\* if (isStarting || activeSession) return; insert a row, no store-side check
startSession(c) ==
  /\ activeSession[c] = NoSession
  /\ Len(grass_sessions) < MaxSessions
  /\ grass_sessions' = Append(grass_sessions, [end_time |-> FALSE, completed |-> FALSE])
  /\ activeSession' = [activeSession EXCEPT ![c] = Len(grass_sessions) + 1]
  /\ isCompleted' = [isCompleted EXCEPT ![c] = FALSE]
  /\ UNCHANGED <<showCelebration, user_garden_stats, completedTriggerFn, onUpdateTrigger,
                 elapsed, rewardLog, completeCalls>>
  /\ UNCHANGED <<storeGarden, gardenVars, cookieVars>>

\* if (!activeSession) return; update({end_time, completed: false}).eq('id', activeSession.id)
cancelSession(c) ==
  /\ activeSession[c] # NoSession
  /\ \E roll \in BOOLEAN : UpdateGrassSession(activeSession[c], FALSE, roll)
  /\ activeSession' = [activeSession EXCEPT ![c] = NoSession]
  /\ UNCHANGED <<isCompleted, showCelebration, completedTriggerFn, onUpdateTrigger,
                 elapsed, completeCalls>>
  /\ UNCHANGED <<storeGarden, gardenVars, cookieVars>>

\* thirty minutes pass for session id
sessionElapses(id) ==
  /\ id \in 1..Len(grass_sessions)
  /\ id \notin elapsed
  /\ elapsed' = elapsed \cup {id}
  /\ UNCHANGED <<grass_sessions, user_garden_stats, completedTriggerFn, onUpdateTrigger,
                 rewardLog, completeCalls>>
  /\ UNCHANGED <<storeGarden, timerVars, gardenVars, cookieVars>>

\* ------------------------------------------------- components/garden/Garden
EmptyInventory == [t \in TypeSet |-> [v \in VariantSet |-> 0]]

\* calculateInventoryBreakdown: the placed plants of the loaded grid, by kind
calculateInventoryBreakdown(items) ==
  [t \in TypeSet |-> [v \in VariantSet |->
     Cardinality({i \in items : i.plant_type = t /\ i.plant_variant = v})]]

\* useGardenData.canAffordPlant
canAffordPlant(stats, type) ==
  \/ type = "flower"
  \/ stats.flowers_available >= PLANT_COSTS(type)

\* the prerequisite test shared by canPlaceSelectedPlant and handleStartPlacing
hasPrerequisite(breakdown, type, variant) ==
  IF variant = "rare" THEN breakdown[type]["basic"] > 0
  ELSE IF variant = "epic" THEN breakdown[type]["rare"] > 0
  ELSE breakdown[type]["epic"] > 0

canPlaceSelectedPlant(c) ==
  LET type == selectedPlantType[c]
      variant == selectedPlantVariant[c]
      isDaisy == type = "flower" /\ variant = "basic"
      placedCount == calculateInventoryBreakdown(gardenItems[c])[type][variant]
      inventoryCount == inventoryPlants[c][type][variant]
  IN IF isDaisy THEN placedCount < inventoryCount + gardenStats[c].flowers_available
     ELSE IF inventoryCount > 0 THEN placedCount < inventoryCount
     ELSE IF variant = "basic" THEN canAffordPlant(gardenStats[c], type)
     ELSE IF gardenStats[c].flowers_available < upgradeVariantCosts(variant) THEN FALSE
     ELSE IF type # "flower"
            THEN hasPrerequisite(calculateInventoryBreakdown(gardenItems[c]), type, variant)
     ELSE TRUE

\* the alert handleStartPlacing ends with, "none" when it enters placing mode
startPlacingOutcome(c) ==
  LET type == selectedPlantType[c]
      variant == selectedPlantVariant[c]
      isDaisy == type = "flower" /\ variant = "basic"
      inventoryCount == inventoryPlants[c][type][variant]
      inventory == calculateInventoryBreakdown(gardenItems[c])
  IN IF inventoryCount > 0 THEN "none"
     ELSE IF ~canPlaceSelectedPlant(c) THEN "cant_place"
     ELSE IF variant = "basic" /\ isDaisy /\ gardenStats[c].flowers_available <= 0
            THEN "no_daisies"
     ELSE IF variant = "basic" /\ ~isDaisy /\ ~canAffordPlant(gardenStats[c], type)
            THEN "not_enough"
     ELSE IF variant # "basic" /\ inventory[type][variant] = 0
              /\ gardenStats[c].flowers_available < upgradeVariantCosts(variant)
            THEN "not_enough"
     ELSE IF variant # "basic" /\ inventory[type][variant] = 0 /\ type # "flower"
              /\ ~hasPrerequisite(inventory, type, variant)
            THEN "missing_prerequisite"
     ELSE "none"

\* the effect "set initial selected plant based on available inventory":
\* first kind with a positive inventory count, types in PLANT_TYPES order,
\* variants legendary, epic, rare, basic
AutoSelectOrder ==
  [k \in 1..(Len(PLANT_TYPES) * Len(VARIANTS)) |->
     <<PLANT_TYPES[((k - 1) \div Len(VARIANTS)) + 1],
       VARIANTS[Len(VARIANTS) - ((k - 1) % Len(VARIANTS))]>>]

AutoSelect(inv, placing, cur) ==
  LET hits == {k \in DOMAIN AutoSelectOrder :
                 inv[AutoSelectOrder[k][1]][AutoSelectOrder[k][2]] > 0}
  IN IF placing \/ hits = {} THEN cur
     ELSE AutoSelectOrder[CHOOSE k \in hits : \A j \in hits : k <= j]

\* the basic flowers of the loaded grid outnumber the loaded balance
ExcessFlowers(c) ==
  LET placed == {i \in gardenItems[c] : i.plant_type = "flower" /\ i.plant_variant = "basic"}
  IN Cardinality(placed) - gardenStats[c].flowers_available

\* a user event is handled only once the pending effects have run
Idle(c) == ExcessFlowers(c) <= 0

\* useGardenData.loadGardenData
loadGardenData(c, items, ornaments, stats) ==
  /\ gardenItems' = [gardenItems EXCEPT ![c] = items]
  /\ gardenOrnaments' = [gardenOrnaments EXCEPT ![c] = ornaments]
  /\ gardenStats' = [gardenStats EXCEPT ![c] = stats]

Select(c, sel) ==
  /\ selectedPlantType' = [selectedPlantType EXCEPT ![c] = sel[1]]
  /\ selectedPlantVariant' = [selectedPlantVariant EXCEPT ![c] = sel[2]]

Selected(c) == <<selectedPlantType[c], selectedPlantVariant[c]>>

\* the component mounts: loadGardenData, loadPlantInventory, fresh local state
gardenMount(c) ==
  /\ loadGardenData(c, garden_items, garden_ornaments, user_garden_stats)
  /\ inventoryPlants' = [inventoryPlants EXCEPT ![c] = user_plant_inventory]
  /\ Select(c, AutoSelect(user_plant_inventory, FALSE, <<"flower", "basic">>))
  /\ placingPlant' = [placingPlant EXCEPT ![c] = FALSE]
  /\ selectedPlant' = [selectedPlant EXCEPT ![c] = NoPlant]
  /\ alertMsg' = [alertMsg EXCEPT ![c] = "none"]
  /\ UNCHANGED <<storeGrass, storeGarden, timerVars, cookieVars>>

\* checkAndRemoveExcessFlowers, run by the effect on gardenStats: delete
\* slice(0, excessCount) of the loaded basic flowers (the select has no
\* ORDER BY, the store returns the rows in any order), then reload. The
\* result of a delete is not looked at: deleteOutcomes are the answers the
\* store may give to each delete (TRUE: the row is removed, FALSE: an error
\* and the row stays); the reload follows in either case.
checkAndRemoveExcessFlowers(c, deleteOutcomes) ==
  LET placed == {i \in gardenItems[c] : i.plant_type = "flower" /\ i.plant_variant = "basic"}
      excessCount == ExcessFlowers(c)
  IN /\ excessCount > 0
     /\ \E flowersToRemove \in SUBSET placed, removed \in SUBSET placed :
          /\ Cardinality(flowersToRemove) = excessCount
          /\ removed \subseteq flowersToRemove
          /\ FALSE \notin deleteOutcomes => removed = flowersToRemove
          /\ TRUE \notin deleteOutcomes => removed = {}
          /\ LET ids == {f.id : f \in removed}
                 left == {i \in garden_items : i.id \notin ids}
             IN /\ garden_items' = left
                /\ loadGardenData(c, left, garden_ornaments, user_garden_stats)
     /\ ledger' = [ledger EXCEPT !.rounds = 1 - @]
     /\ UNCHANGED <<inventoryPlants, selectedPlantType, selectedPlantVariant, placingPlant,
                    selectedPlant, alertMsg>>
     /\ UNCHANGED <<garden_ornaments, user_plant_inventory, nextId>>
     /\ UNCHANGED <<storeGrass, timerVars, cookieVars>>

\* the dropdown entry of (type, variant) is enabled
CanPick(c, type, variant) ==
  LET breakdown == calculateInventoryBreakdown(gardenItems[c])
      hasFlowers == gardenStats[c].flowers_available >= upgradeVariantCosts(variant)
      hasPrerequisiteVariant == type = "flower" \/ hasPrerequisite(breakdown, type, variant)
      canPurchase == IF type = "flower" THEN hasFlowers
                     ELSE hasPrerequisiteVariant /\ hasFlowers
  IN IF variant = "basic"
       THEN IF type # "flower" THEN canAffordPlant(gardenStats[c], type)
            ELSE gardenStats[c].flowers_available > 0 \/ inventoryPlants[c]["flower"]["basic"] > 0
       ELSE breakdown[type][variant] > 0 \/ inventoryPlants[c][type][variant] > 0 \/ canPurchase

\* the selector and the "Add to Garden" button are rendered
SelectorShown(c) == ~placingPlant[c] /\ selectedPlant[c] = NoPlant

handlePlantTypeSelect(c, type, variant) ==
  /\ Idle(c)
  /\ SelectorShown(c)
  /\ CanPick(c, type, variant)
  /\ Selected(c) # <<type, variant>>
  /\ Select(c, <<type, variant>>)
  /\ alertMsg' = [alertMsg EXCEPT ![c] = "none"]
  /\ UNCHANGED <<gardenItems, gardenOrnaments, gardenStats, inventoryPlants, placingPlant,
                 selectedPlant>>
  /\ UNCHANGED <<storeGrass, storeGarden, timerVars, cookieVars>>

handleStartPlacing(c) ==
  /\ Idle(c)
  /\ SelectorShown(c)
  /\ alertMsg' = [alertMsg EXCEPT ![c] = startPlacingOutcome(c)]
  /\ placingPlant' = [placingPlant EXCEPT ![c] = startPlacingOutcome(c) = "none"]
  /\ UNCHANGED <<gardenItems, gardenOrnaments, gardenStats, inventoryPlants,
                 selectedPlantType, selectedPlantVariant, selectedPlant>>
  /\ UNCHANGED <<storeGrass, storeGarden, timerVars, cookieVars>>

handleCancelPlacing(c) ==
  /\ Idle(c)
  /\ placingPlant[c]
  /\ placingPlant' = [placingPlant EXCEPT ![c] = FALSE]
  /\ Select(c, AutoSelect(inventoryPlants[c], FALSE, Selected(c)))
  /\ alertMsg' = [alertMsg EXCEPT ![c] = "none"]
  /\ UNCHANGED <<gardenItems, gardenOrnaments, gardenStats, inventoryPlants, selectedPlant>>
  /\ UNCHANGED <<storeGrass, storeGarden, timerVars, cookieVars>>

\* what the loaded grid shows at a cell: an ornament hides a plant
OrnamentAt(c, pos) == \E o \in gardenOrnaments[c] : Cell(o) = pos
PlantsAt(c, pos) == {i \in gardenItems[c] : Cell(i) = pos}

handlePlantClick(c, plant) ==
  /\ Idle(c)
  /\ ~placingPlant[c]
  /\ plant \in gardenItems[c]
  /\ ~OrnamentAt(c, Cell(plant))
  /\ selectedPlant[c] # plant
  /\ selectedPlant' = [selectedPlant EXCEPT ![c] = plant]
  /\ alertMsg' = [alertMsg EXCEPT ![c] = "none"]
  /\ UNCHANGED <<gardenItems, gardenOrnaments, gardenStats, inventoryPlants,
                 selectedPlantType, selectedPlantVariant, placingPlant>>
  /\ UNCHANGED <<storeGrass, storeGarden, timerVars, cookieVars>>

handleClosePanel(c) ==
  /\ Idle(c)
  /\ selectedPlant[c] # NoPlant
  /\ selectedPlant' = [selectedPlant EXCEPT ![c] = NoPlant]
  /\ alertMsg' = [alertMsg EXCEPT ![c] = "none"]
  /\ UNCHANGED <<gardenItems, gardenOrnaments, gardenStats, inventoryPlants,
                 selectedPlantType, selectedPlantVariant, placingPlant>>
  /\ UNCHANGED <<storeGrass, storeGarden, timerVars, cookieVars>>

\* what the last write of a garden handler was: the handler, the row and the
\* plant kind it wrote or removed, and whether the plant came from the inventory
LastOp(op, id, type, variant, fromInventory) ==
  [op |-> op, id |-> id, plant_type |-> type, plant_variant |-> variant,
   fromInventory |-> fromInventory]
NoOp == LastOp("none", 0, "", "", FALSE)

InvAdd(inv, type, variant, d) == [inv EXCEPT ![type][variant] = @ + d]

\* update({flowers_available: value}).eq('user_id', userId)
SetFlowersAvailable(stats, value) == [stats EXCEPT !.flowers_available = value]

\* the debit of a placement that is not taken from inventory
placementCost(type, variant, hasVariant) ==
  IF variant = "basic" THEN (IF type = "flower" THEN 0 ELSE PLANT_COSTS(type))
  ELSE IF ~hasVariant THEN upgradeVariantCosts(variant)
  ELSE 0

\* updatedInventory of the replacement branch: the plant the loaded grid shows
\* at pos is added to the tab's inventory (the copy is shallow, so the tab's
\* own inventory object holds the new count when the handler reads it next)
inventoryAfterReplace(c, pos) ==
  IF PlantsAt(c, pos) # {}
    THEN LET existingItem == CHOOSE i \in PlantsAt(c, pos) : TRUE
         IN InvAdd(inventoryPlants[c], existingItem.plant_type, existingItem.plant_variant, 1)
    ELSE inventoryPlants[c]

\* inventoryCount > 0: the placement takes the plant from the inventory
useFromInventory(c, pos) ==
  inventoryAfterReplace(c, pos)[selectedPlantType[c]][selectedPlantVariant[c]] > 0

\* handleGridCellClick in plant placing mode, on cell pos; confirmReplace is
\* the answer to window.confirm when the loaded grid shows a plant there
handleGridCellClick(c, pos, confirmReplace) ==
  LET type == selectedPlantType[c]
      variant == selectedPlantVariant[c]
      replacing == PlantsAt(c, pos) # {}
      existingItem == CHOOSE i \in PlantsAt(c, pos) : TRUE
      \* delete the existing plant, add it to the inventory, flower back
      items1 == IF replacing THEN {i \in garden_items : i.id # existingItem.id}
                ELSE garden_items
      inv1 == inventoryAfterReplace(c, pos)
      dbInv1 == IF replacing THEN inv1 ELSE user_plant_inventory
      stats1 == IF replacing /\ existingItem.plant_type = "flower"
                  THEN SetFlowersAvailable(user_garden_stats,
                                           gardenStats[c].flowers_available + 1)
                  ELSE user_garden_stats
      \* place from inventory first
      inv2 == IF useFromInventory(c, pos) THEN InvAdd(inv1, type, variant, -1) ELSE inv1
      dbInv2 == IF useFromInventory(c, pos) THEN inv2 ELSE dbInv1
      \* insert, UNIQUE(user_id, position_x, position_y)
      cellTaken == \E i \in items1 : Cell(i) = pos
      newItem == [id |-> nextId, plant_type |-> type, plant_variant |-> variant,
                  position_x |-> pos[1], position_y |-> pos[2]]
      items2 == items1 \cup {newItem}
      hasVariant == calculateInventoryBreakdown(gardenItems[c])[type][variant] > 0
      cost == IF useFromInventory(c, pos) THEN 0 ELSE placementCost(type, variant, hasVariant)
      stats2 == IF cost > 0
                  THEN SetFlowersAvailable(stats1, gardenStats[c].flowers_available - cost)
                  ELSE stats1
  IN
  /\ Idle(c)
  /\ placingPlant[c]
  /\ IF OrnamentAt(c, pos)
       THEN \* "You can't replace ornaments with plants."
            /\ alertMsg' = [alertMsg EXCEPT ![c] = "cant_replace_ornament"]
            /\ UNCHANGED <<gardenItems, gardenOrnaments, gardenStats, inventoryPlants,
                           selectedPlantType, selectedPlantVariant, placingPlant,
                           selectedPlant, storeGarden, user_garden_stats>>
       ELSE IF replacing /\ ~confirmReplace
       THEN \* the user cancelled the replacement
            /\ alertMsg' = [alertMsg EXCEPT ![c] = "none"]
            /\ UNCHANGED <<gardenItems, gardenOrnaments, gardenStats, inventoryPlants,
                           selectedPlantType, selectedPlantVariant, placingPlant,
                           selectedPlant, storeGarden, user_garden_stats>>
       ELSE IF cellTaken
       THEN \* the insert fails: the handler ends in its catch block
            /\ garden_items' = items1
            /\ user_plant_inventory' = dbInv2
            /\ user_garden_stats' = stats1
            /\ inventoryPlants' = [inventoryPlants EXCEPT ![c] = inv2]
            /\ ledger' = [ledger EXCEPT !.last =
                            LastOp(IF replacing THEN "replace_failed" ELSE "insert_failed",
                                   0, type, variant, useFromInventory(c, pos))]
            /\ alertMsg' = [alertMsg EXCEPT ![c] = "none"]
            /\ UNCHANGED <<gardenItems, gardenOrnaments, gardenStats, selectedPlantType,
                           selectedPlantVariant, placingPlant, selectedPlant,
                           garden_ornaments, nextId>>
       ELSE /\ garden_items' = items2
            /\ nextId' = nextId + 1
            /\ user_plant_inventory' = dbInv2
            /\ user_garden_stats' = stats2
            /\ ledger' = [ledger EXCEPT !.spent = @ + cost,
                                        !.last = LastOp(IF replacing THEN "replace" ELSE "place",
                                                        nextId, type, variant,
                                                        useFromInventory(c, pos))]
            /\ inventoryPlants' = [inventoryPlants EXCEPT ![c] = inv2]
            /\ placingPlant' = [placingPlant EXCEPT ![c] = FALSE]
            /\ loadGardenData(c, items2, garden_ornaments, stats2)
            /\ Select(c, AutoSelect(inv2, FALSE, Selected(c)))
            /\ alertMsg' = [alertMsg EXCEPT ![c] = "none"]
            /\ UNCHANGED <<selectedPlant, garden_ornaments>>
  /\ UNCHANGED <<grass_sessions, completedTriggerFn, onUpdateTrigger, elapsed, rewardLog,
                 completeCalls>>
  /\ UNCHANGED <<timerVars, cookieVars>>

\* plantUtils.getNextVariant
getNextVariant(currentVariant) ==
  CASE currentVariant = "basic" -> "rare"
    [] currentVariant = "rare" -> "epic"
    [] currentVariant = "epic" -> "legendary"
    [] OTHER -> "null"

\* plantUtils.getUpgradeCost
getUpgradeCost(currentVariant) ==
  CASE currentVariant = "basic" -> 5
    [] currentVariant = "rare" -> 10
    [] currentVariant = "epic" -> 15
    [] OTHER -> 0

\* an upgrade that costs 5 flowers whatever the variant
upgradeCost_flat(currentVariant) == 5

\* an upgrade that debits twice the cost the panel asked for
upgradeCost_doubled(currentVariant) == 2 * getUpgradeCost(currentVariant)

\* Garden.handleUpgradePlant: the cost it debits, computed in the handler
upgradeCost(currentVariant) ==
  IF currentVariant = "basic" THEN 5
  ELSE IF currentVariant = "rare" THEN 10
  ELSE 15

\* PlantUpgradePanel.handleUpgrade (canUpgrade) and Garden.handleUpgradePlant
handleUpgradePlant(c) ==
  LET plant == selectedPlant[c]
      nextVariant == getNextVariant(plant.plant_variant)
      panelCost == getUpgradeCost(plant.plant_variant)
      cost == upgradeCost(plant.plant_variant)
      items1 == {IF i.id = plant.id THEN [i EXCEPT !.plant_variant = nextVariant] ELSE i :
                   i \in garden_items}
      stats1 == SetFlowersAvailable(user_garden_stats,
                                    gardenStats[c].flowers_available - cost)
  IN
  /\ Idle(c)
  /\ plant # NoPlant
  /\ nextVariant # "null"
  /\ gardenStats[c].flowers_available >= panelCost
  /\ garden_items' = items1
  /\ user_garden_stats' = stats1
  /\ ledger' = [ledger EXCEPT !.spent = @ + cost,
                              !.last = LastOp("upgrade", plant.id, plant.plant_type, nextVariant, FALSE)]
  /\ selectedPlant' = [selectedPlant EXCEPT ![c] = NoPlant]
  /\ loadGardenData(c, items1, garden_ornaments, stats1)
  /\ alertMsg' = [alertMsg EXCEPT ![c] = "none"]
  /\ UNCHANGED <<inventoryPlants, selectedPlantType, selectedPlantVariant, placingPlant>>
  /\ UNCHANGED <<garden_ornaments, user_plant_inventory, nextId>>
  /\ UNCHANGED <<grass_sessions, completedTriggerFn, onUpdateTrigger, elapsed, rewardLog,
                 completeCalls>>
  /\ UNCHANGED <<timerVars, cookieVars>>

\* Garden.handleReturnPlantToInventory, after the confirm of the panel
handleReturnPlantToInventory(c) ==
  LET plant == selectedPlant[c]
      items1 == {i \in garden_items : i.id # plant.id}
      inv1 == InvAdd(inventoryPlants[c], plant.plant_type, plant.plant_variant, 1)
  IN
  /\ Idle(c)
  /\ plant # NoPlant
  /\ garden_items' = items1
  /\ user_plant_inventory' = inv1
  /\ inventoryPlants' = [inventoryPlants EXCEPT ![c] = inv1]
  /\ selectedPlant' = [selectedPlant EXCEPT ![c] = NoPlant]
  /\ loadGardenData(c, items1, garden_ornaments, user_garden_stats)
  /\ Select(c, AutoSelect(inv1, placingPlant[c], Selected(c)))
  /\ alertMsg' = [alertMsg EXCEPT ![c] = "none"]
  /\ ledger' = [ledger EXCEPT !.last = LastOp("return", plant.id, plant.plant_type,
                                              plant.plant_variant, FALSE)]
  /\ UNCHANGED <<placingPlant, garden_ornaments, nextId>>
  /\ UNCHANGED <<storeGrass, timerVars, cookieVars>>

\* a sell value whose upgrade part is 5 / 20 / 50
sellValue_5_20_50(plantType, plantVariant) ==
  (IF plantType = "flower" THEN 1 ELSE PLANT_COSTS(plantType))
  + (CASE plantVariant = "rare" -> 5
       [] plantVariant = "epic" -> 20
       [] plantVariant = "legendary" -> 50
       [] OTHER -> 0)

\* the sell value computed by handleSellPlant
sellValue(plantType, plantVariant) ==
  (IF plantType = "flower" THEN 1 ELSE PLANT_COSTS(plantType))
  + (CASE plantVariant = "rare" -> 5
       [] plantVariant = "epic" -> 15
       [] plantVariant = "legendary" -> 30
       [] OTHER -> 0)

\* Garden.handleSellPlant, after the confirm of the panel
handleSellPlant(c) ==
  LET plant == selectedPlant[c]
      value == sellValue(plant.plant_type, plant.plant_variant)
      items1 == {i \in garden_items : i.id # plant.id}
      stats1 == SetFlowersAvailable(user_garden_stats,
                                    gardenStats[c].flowers_available + value)
  IN
  /\ Idle(c)
  /\ plant # NoPlant
  /\ garden_items' = items1
  /\ user_garden_stats' = stats1
  /\ ledger' = [ledger EXCEPT !.sold = @ + value,
                              !.last = LastOp("sell", plant.id, plant.plant_type,
                                              plant.plant_variant, FALSE)]
  /\ selectedPlant' = [selectedPlant EXCEPT ![c] = NoPlant]
  /\ loadGardenData(c, items1, garden_ornaments, stats1)
  /\ alertMsg' = [alertMsg EXCEPT ![c] = "none"]
  /\ UNCHANGED <<inventoryPlants, selectedPlantType, selectedPlantVariant, placingPlant>>
  /\ UNCHANGED <<garden_ornaments, user_plant_inventory, nextId>>
  /\ UNCHANGED <<grass_sessions, completedTriggerFn, onUpdateTrigger, elapsed, rewardLog,
                 completeCalls>>
  /\ UNCHANGED <<timerVars, cookieVars>>


\* ------------------------------------------------- hooks/useGardenData.ts
\* createNewPlant(type, variant, gridSize), called for a plant type the caller
\* found affordable: the first cell free of loaded plants, an insert, then
\* the balance written from the loaded stats
createNewPlant(c, type, variant) ==
  LET pos == FirstEmptyPosition({Cell(i) : i \in gardenItems[c]})
      cellTaken == \E i \in garden_items : Cell(i) = pos
      newItem == [id |-> nextId, plant_type |-> type, plant_variant |-> variant,
                  position_x |-> pos[1], position_y |-> pos[2]]
      items1 == garden_items \cup {newItem}
      cost == IF type = "flower" THEN 0 ELSE PLANT_COSTS(type)
      stats1 == SetFlowersAvailable(user_garden_stats, gardenStats[c].flowers_available - cost)
  IN
  /\ canAffordPlant(gardenStats[c], type)
  /\ IF pos = <<-1, -1>>
       THEN \* "Your garden is full!"
            /\ alertMsg' = [alertMsg EXCEPT ![c] = "garden_full"]
            /\ UNCHANGED <<gardenItems, gardenOrnaments, gardenStats, storeGarden,
                           user_garden_stats>>
       ELSE IF cellTaken
       THEN \* the insert fails, UNIQUE(user_id, position_x, position_y)
            /\ alertMsg' = [alertMsg EXCEPT ![c] = "error_creating_plant"]
            /\ UNCHANGED <<gardenItems, gardenOrnaments, gardenStats, storeGarden,
                           user_garden_stats>>
       ELSE /\ garden_items' = items1
            /\ nextId' = nextId + 1
            /\ user_garden_stats' = stats1
            /\ ledger' = [ledger EXCEPT !.spent = @ + cost,
                                        !.last = LastOp("place", nextId, type, variant, FALSE)]
            /\ loadGardenData(c, items1, garden_ornaments, stats1)
            /\ alertMsg' = [alertMsg EXCEPT ![c] = "none"]
            /\ UNCHANGED <<garden_ornaments, user_plant_inventory>>
  /\ UNCHANGED <<inventoryPlants, selectedPlantType, selectedPlantVariant, placingPlant,
                 selectedPlant>>
  /\ UNCHANGED <<grass_sessions, completedTriggerFn, onUpdateTrigger, elapsed, rewardLog,
                 completeCalls>>
  /\ UNCHANGED <<timerVars, cookieVars>>

\* ------------- components/garden/Garden, the variant without plant inventory
\* (src/unnamed/part_005): new plants are always basic, a plant taken off the
\* grid is only deleted

\* every flower of the loaded grid counts, whatever its variant
ExcessFlowers_005(c) ==
  LET placedFlowers == {i \in gardenItems[c] : i.plant_type = "flower"}
  IN Cardinality(placedFlowers) - gardenStats[c].flowers_available

Idle_005(c) == ExcessFlowers_005(c) <= 0

checkAndRemoveExcessFlowers_005(c) ==
  LET placedFlowers == {i \in gardenItems[c] : i.plant_type = "flower"}
      excessCount == ExcessFlowers_005(c)
  IN /\ excessCount > 0
     /\ \E flowersToRemove \in SUBSET placedFlowers :
          /\ Cardinality(flowersToRemove) = excessCount
          /\ LET ids == {f.id : f \in flowersToRemove}
                 left == {i \in garden_items : i.id \notin ids}
             IN /\ garden_items' = left
                /\ loadGardenData(c, left, garden_ornaments, user_garden_stats)
     /\ alertMsg' = [alertMsg EXCEPT ![c] = "flowers_removed"]
     /\ UNCHANGED <<inventoryPlants, selectedPlantType, selectedPlantVariant, placingPlant,
                    selectedPlant>>
     /\ UNCHANGED <<garden_ornaments, user_plant_inventory, nextId, ledger>>
     /\ UNCHANGED <<storeGrass, timerVars, cookieVars>>

\* the "Edit Garden" button is enabled
hasAvailablePlants(c) ==
  LET placedFlowers == Cardinality({i \in gardenItems[c] : i.plant_type = "flower"})
  IN IF placedFlowers >= gardenStats[c].flowers_available THEN FALSE
     ELSE \E type \in TypeSet : canAffordPlant(gardenStats[c], type)

\* the button of a type is disabled when the type is not affordable
handlePlantTypeSelect_005(c, type) ==
  /\ Idle_005(c)
  /\ SelectorShown(c)
  /\ canAffordPlant(gardenStats[c], type)
  /\ selectedPlantType[c] # type
  /\ selectedPlantType' = [selectedPlantType EXCEPT ![c] = type]
  /\ alertMsg' = [alertMsg EXCEPT ![c] = "none"]
  /\ UNCHANGED <<gardenItems, gardenOrnaments, gardenStats, inventoryPlants,
                 selectedPlantVariant, placingPlant, selectedPlant>>
  /\ UNCHANGED <<storeGrass, storeGarden, timerVars, cookieVars>>

handleStartPlacing_005(c) ==
  LET affordable == canAffordPlant(gardenStats[c], selectedPlantType[c]) IN
  /\ Idle_005(c)
  /\ SelectorShown(c)
  /\ hasAvailablePlants(c)
  /\ alertMsg' = [alertMsg EXCEPT ![c] = IF affordable THEN "none" ELSE "not_enough"]
  /\ placingPlant' = [placingPlant EXCEPT ![c] = affordable]
  /\ UNCHANGED <<gardenItems, gardenOrnaments, gardenStats, inventoryPlants,
                 selectedPlantType, selectedPlantVariant, selectedPlant>>
  /\ UNCHANGED <<storeGrass, storeGarden, timerVars, cookieVars>>

\* handleGridCellClick in plant placing mode: the existing plant is deleted
\* and not kept anywhere, the balance is written whatever the cost
handleGridCellClick_005(c, pos, confirmReplace) ==
  LET type == selectedPlantType[c]
      replacing == PlantsAt(c, pos) # {}
      existingItem == CHOOSE i \in PlantsAt(c, pos) : TRUE
      items1 == IF replacing THEN {i \in garden_items : i.id # existingItem.id}
                ELSE garden_items
      stats1 == IF replacing /\ existingItem.plant_type = "flower"
                  THEN SetFlowersAvailable(user_garden_stats,
                                           gardenStats[c].flowers_available + 1)
                  ELSE user_garden_stats
      cellTaken == \E i \in items1 : Cell(i) = pos
      newItem == [id |-> nextId, plant_type |-> type, plant_variant |-> "basic",
                  position_x |-> pos[1], position_y |-> pos[2]]
      items2 == items1 \cup {newItem}
      cost == IF type = "flower" THEN 0 ELSE PLANT_COSTS(type)
      stats2 == SetFlowersAvailable(stats1, gardenStats[c].flowers_available - cost)
  IN
  /\ Idle_005(c)
  /\ placingPlant[c]
  /\ IF OrnamentAt(c, pos) \/ (replacing /\ ~confirmReplace)
       THEN /\ alertMsg' = [alertMsg EXCEPT ![c] =
                 IF OrnamentAt(c, pos) THEN "cant_replace_ornament" ELSE "none"]
            /\ UNCHANGED <<gardenItems, gardenOrnaments, gardenStats, placingPlant,
                           storeGarden, user_garden_stats>>
       ELSE IF cellTaken
       THEN \* the insert fails: the handler ends in its catch block
            /\ garden_items' = items1
            /\ user_garden_stats' = stats1
            /\ alertMsg' = [alertMsg EXCEPT ![c] = "none"]
            /\ UNCHANGED <<gardenItems, gardenOrnaments, gardenStats, placingPlant,
                           garden_ornaments, user_plant_inventory, nextId, ledger>>
       ELSE /\ garden_items' = items2
            /\ nextId' = nextId + 1
            /\ user_garden_stats' = stats2
            /\ ledger' = [ledger EXCEPT !.spent = @ + cost,
                                        !.last = LastOp(IF replacing THEN "replace" ELSE "place",
                                                        nextId, type, "basic", FALSE)]
            /\ placingPlant' = [placingPlant EXCEPT ![c] = FALSE]
            /\ loadGardenData(c, items2, garden_ornaments, stats2)
            /\ alertMsg' = [alertMsg EXCEPT ![c] = "none"]
            /\ UNCHANGED <<garden_ornaments, user_plant_inventory>>
  /\ UNCHANGED <<inventoryPlants, selectedPlantType, selectedPlantVariant, selectedPlant>>
  /\ UNCHANGED <<grass_sessions, completedTriggerFn, onUpdateTrigger, elapsed, rewardLog,
                 completeCalls>>
  /\ UNCHANGED <<timerVars, cookieVars>>

\* handleReturnPlantToInventory: delete the row, reload
handleReturnPlantToInventory_005(c) ==
  LET plant == selectedPlant[c]
      items1 == {i \in garden_items : i.id # plant.id}
  IN
  /\ Idle_005(c)
  /\ plant # NoPlant
  /\ garden_items' = items1
  /\ selectedPlant' = [selectedPlant EXCEPT ![c] = NoPlant]
  /\ loadGardenData(c, items1, garden_ornaments, user_garden_stats)
  /\ ledger' = [ledger EXCEPT !.last = LastOp("return", plant.id, plant.plant_type,
                                              plant.plant_variant, FALSE)]
  /\ alertMsg' = [alertMsg EXCEPT ![c] = "none"]
  /\ UNCHANGED <<inventoryPlants, selectedPlantType, selectedPlantVariant, placingPlant>>
  /\ UNCHANGED <<garden_ornaments, user_plant_inventory, nextId>>
  /\ UNCHANGED <<storeGrass, timerVars, cookieVars>>
\* --------------------------------------------- cookie store, HungerTracker
NullDate == -1
NoStats == [found |-> FALSE, total_cookies |-> 0, current_streak |-> 0,
            longest_streak |-> 0, last_cookie_date |-> NullDate]

\* update_cookie_streak() with the reset test written ">=": a gap of exactly
\* 36 hours resets the streak
update_cookie_streak_resets_at_gap(stats, created_at) ==
  IF ~stats.found
    THEN [stats |-> [found |-> TRUE, total_cookies |-> 1, current_streak |-> 1,
                     longest_streak |-> 1, last_cookie_date |-> created_at],
          streak_count |-> 1]
    ELSE LET current_user_streak ==
               IF stats.last_cookie_date = NullDate
                  \/ created_at - stats.last_cookie_date >= STREAK_GAP_HOURS
                 THEN 1
                 ELSE stats.current_streak + 1
             longest_user_streak ==
               IF current_user_streak > stats.longest_streak
                 THEN current_user_streak
                 ELSE stats.longest_streak
         IN [stats |-> [found |-> TRUE,
                        total_cookies |-> stats.total_cookies + 1,
                        current_streak |-> current_user_streak,
                        longest_streak |-> longest_user_streak,
                        last_cookie_date |-> created_at],
             streak_count |-> current_user_streak]

\* update_cookie_streak(), BEFORE INSERT ON cookie_rewards: the new stats row
\* and NEW.streak_count
update_cookie_streak(stats, created_at) ==
  IF ~stats.found
    THEN [stats |-> [found |-> TRUE, total_cookies |-> 1, current_streak |-> 1,
                     longest_streak |-> 1, last_cookie_date |-> created_at],
          streak_count |-> 1]
    ELSE LET current_user_streak ==
               IF stats.last_cookie_date = NullDate
                  \/ created_at - stats.last_cookie_date > STREAK_GAP_HOURS
                 THEN 1
                 ELSE stats.current_streak + 1
             longest_user_streak ==
               IF current_user_streak > stats.longest_streak
                 THEN current_user_streak
                 ELSE stats.longest_streak
         IN [stats |-> [found |-> TRUE,
                        total_cookies |-> stats.total_cookies + 1,
                        current_streak |-> current_user_streak,
                        longest_streak |-> longest_user_streak,
                        last_cookie_date |-> created_at],
             streak_count |-> current_user_streak]

\* upsert({user_id, total_cookies}, {onConflict: 'user_id'})
upsertTotalCookies(stats, total) ==
  IF stats.found THEN [stats EXCEPT !.total_cookies = total]
  ELSE [NoStats EXCEPT !.found = TRUE, !.total_cookies = total]

OpenHunger == {i \in 1..Len(hunger_records) : ~hunger_records[i].end_time}
StartedHunger == {i \in 1..Len(hunger_records) : ~hunger_records[i].manual}

\* HungerTracker mounts: fetchUserData, checkForActiveSession
hungerMount(c) ==
  LET open == OpenHunger
      latest == CHOOSE i \in open : \A j \in open : j <= i IN
  /\ isHungry' = [isHungry EXCEPT ![c] = open # {}]
  /\ currentSession' = [currentSession EXCEPT ![c] = IF open # {} THEN latest ELSE NoSession]
  /\ cookieCount' = [cookieCount EXCEPT ![c] =
        IF user_cookie_stats.found THEN user_cookie_stats.total_cookies ELSE 0]
  /\ isCooldown' = [isCooldown EXCEPT ![c] = FALSE]
  /\ UNCHANGED <<hunger_records, cookie_rewards, user_cookie_stats, now>>
  /\ UNCHANGED <<storeGrass, storeGarden, timerVars, gardenVars>>

\* the "I'm Hungry" button is rendered while !isHungry; the insert is unconditional
startHunger(c) ==
  /\ ~isHungry[c]
  /\ Cardinality(StartedHunger) < MaxHunger
  /\ hunger_records' = Append(hunger_records, [end_time |-> FALSE, manual |-> FALSE])
  /\ isHungry' = [isHungry EXCEPT ![c] = TRUE]
  /\ currentSession' = [currentSession EXCEPT ![c] = Len(hunger_records) + 1]
  /\ UNCHANGED <<cookie_rewards, user_cookie_stats, now, cookieCount, isCooldown>>
  /\ UNCHANGED <<storeGrass, storeGarden, timerVars, gardenVars>>

\* a stopHunger that awards a cookie for the session it closes
stopHunger_awarding(c) ==
  LET r == update_cookie_streak(user_cookie_stats, now) IN
  /\ isHungry[c]
  /\ currentSession[c] # NoSession
  /\ Len(cookie_rewards) < MaxAwards
  /\ hunger_records' = [hunger_records EXCEPT ![currentSession[c]].end_time = TRUE]
  /\ cookie_rewards' = Append(cookie_rewards,
        [created_at |-> now, streak_count |-> r.streak_count,
         hunger_record_id |-> currentSession[c]])
  /\ user_cookie_stats' = r.stats
  /\ isHungry' = [isHungry EXCEPT ![c] = FALSE]
  /\ currentSession' = [currentSession EXCEPT ![c] = NoSession]
  /\ UNCHANGED <<now, cookieCount, isCooldown>>
  /\ UNCHANGED <<storeGrass, storeGarden, timerVars, gardenVars>>

\* if (!currentSession) return; update({end_time, duration_seconds}).eq('id', ...)
stopHunger(c) ==
  /\ isHungry[c]
  /\ currentSession[c] # NoSession
  /\ hunger_records' = [hunger_records EXCEPT ![currentSession[c]].end_time = TRUE]
  /\ isHungry' = [isHungry EXCEPT ![c] = FALSE]
  /\ currentSession' = [currentSession EXCEPT ![c] = NoSession]
  /\ UNCHANGED <<cookie_rewards, user_cookie_stats, now, cookieCount, isCooldown>>
  /\ UNCHANGED <<storeGrass, storeGarden, timerVars, gardenVars>>

ManualHunger == {i \in 1..Len(hunger_records) : hunger_records[i].manual}

\* what the store answers to the three writes of earnCookieManually
CookieOutcomes == {"ok", "placeholder_error", "cookie_error", "stats_error"}

\* a manual cookie action that does not look at the cooldown flag
earnCookieManually_unguarded(c, gap, outcome) ==
  LET created_at == now + gap
      r == update_cookie_streak(user_cookie_stats, created_at)
      placeholderId == Len(hunger_records) + 1
      cookie == [created_at |-> created_at, streak_count |-> r.streak_count,
                 hunger_record_id |-> placeholderId]
  IN
  /\ ~isHungry[c]
  /\ now' = IF outcome = "placeholder_error" THEN now ELSE created_at
  /\ hunger_records' = IF outcome = "placeholder_error" THEN hunger_records
                        ELSE Append(hunger_records, [end_time |-> TRUE, manual |-> TRUE])
  /\ cookie_rewards' = IF outcome \in {"ok", "stats_error"}
                          THEN Append(cookie_rewards, cookie) ELSE cookie_rewards
  /\ user_cookie_stats' = CASE outcome = "ok" -> upsertTotalCookies(r.stats, cookieCount[c] + 1)
                             [] outcome = "stats_error" -> r.stats
                             [] OTHER -> user_cookie_stats
  /\ cookieCount' = [cookieCount EXCEPT ![c] = IF outcome = "ok" THEN @ + 1 ELSE @]
  /\ isCooldown' = [isCooldown EXCEPT ![c] = outcome = "ok"]
  /\ UNCHANGED <<isHungry, currentSession>>
  /\ UNCHANGED <<storeGrass, storeGarden, timerVars, gardenVars>>

\* earnCookieManually, gap hours after the previous store write: placeholder
\* hunger record, cookie_rewards insert (trigger), stats upsert, local count;
\* the first write that fails throws, and the catch block clears the
\* cooldown flag that the handler set on entry
earnCookieManually(c, gap, outcome) ==
  LET created_at == now + gap
      r == update_cookie_streak(user_cookie_stats, created_at)
      placeholderId == Len(hunger_records) + 1
      cookie == [created_at |-> created_at, streak_count |-> r.streak_count,
                 hunger_record_id |-> placeholderId]
  IN
  /\ ~isHungry[c]
  /\ ~isCooldown[c]
  /\ now' = IF outcome = "placeholder_error" THEN now ELSE created_at
  /\ hunger_records' = IF outcome = "placeholder_error" THEN hunger_records
                        ELSE Append(hunger_records, [end_time |-> TRUE, manual |-> TRUE])
  /\ cookie_rewards' = IF outcome \in {"ok", "stats_error"}
                          THEN Append(cookie_rewards, cookie) ELSE cookie_rewards
  /\ user_cookie_stats' = CASE outcome = "ok" -> upsertTotalCookies(r.stats, cookieCount[c] + 1)
                             [] outcome = "stats_error" -> r.stats
                             [] OTHER -> user_cookie_stats
  /\ cookieCount' = [cookieCount EXCEPT ![c] = IF outcome = "ok" THEN @ + 1 ELSE @]
  /\ isCooldown' = [isCooldown EXCEPT ![c] = outcome = "ok"]
  /\ UNCHANGED <<isHungry, currentSession>>
  /\ UNCHANGED <<storeGrass, storeGarden, timerVars, gardenVars>>

\* setTimeout(() => setIsCooldown(false), 15000)
cooldownTimeout(c) ==
  /\ isCooldown[c]
  /\ isCooldown' = [isCooldown EXCEPT ![c] = FALSE]
  /\ UNCHANGED <<hunger_records, cookie_rewards, user_cookie_stats, now, isHungry,
                 currentSession, cookieCount>>
  /\ UNCHANGED <<storeGrass, storeGarden, timerVars, gardenVars>>

\* ------------------------------------------------------------- CookieJar
\* lib/supabase COOKIE_ACHIEVEMENTS
COOKIE_ACHIEVEMENTS ==
  << [id |-> "first_cookie", requirement |-> 1, isStreak |-> FALSE],
     [id |-> "cookie_collector", requirement |-> 10, isStreak |-> FALSE],
     [id |-> "cookie_monster", requirement |-> 25, isStreak |-> FALSE],
     [id |-> "bakers_dozen", requirement |-> 13, isStreak |-> TRUE],
     [id |-> "cookie_master", requirement |-> 50, isStreak |-> FALSE] >>

\* CookieJar.loadCookieData: the achievements the jar shows for the stats row
\* it has read (statsData is null when the user has no row)
unlockedAchievements(statsData) ==
  {COOKIE_ACHIEVEMENTS[k].id : k \in
     {k \in DOMAIN COOKIE_ACHIEVEMENTS :
        IF COOKIE_ACHIEVEMENTS[k].isStreak
          THEN (IF statsData.found THEN statsData.current_streak ELSE 0)
                 >= COOKIE_ACHIEVEMENTS[k].requirement
          ELSE (IF statsData.found THEN statsData.total_cookies ELSE 0)
                 >= COOKIE_ACHIEVEMENTS[k].requirement}}

\* CookieJar.handleShare: the achievements the share card chooses from
sharedAchievements(stats) ==
  {COOKIE_ACHIEVEMENTS[k].id : k \in
     {k \in DOMAIN COOKIE_ACHIEVEMENTS :
        IF COOKIE_ACHIEVEMENTS[k].isStreak
          THEN (IF stats.found THEN stats.longest_streak ELSE 0)
                 >= COOKIE_ACHIEVEMENTS[k].requirement
          ELSE (IF stats.found THEN stats.total_cookies ELSE 0)
                 >= COOKIE_ACHIEVEMENTS[k].requirement}}

\* ---------------------------------------------------------- specifications
InitStats(n) == [total_sessions_completed |-> n, total_flowers_earned |-> n,
                 flowers_available |-> n]

InitWith(flowers, fns, updateTriggers) ==
  /\ grass_sessions = <<>>
  /\ \E n \in flowers : /\ user_garden_stats = InitStats(n)
                        /\ gardenStats = [c \in Clients |-> InitStats(n)]
  /\ garden_items = {}
  /\ garden_ornaments = {}
  /\ user_plant_inventory = EmptyInventory
  /\ nextId = 1
  /\ completedTriggerFn \in fns
  /\ onUpdateTrigger \in updateTriggers
  /\ elapsed = {}
  /\ activeSession = [c \in Clients |-> NoSession]
  /\ isCompleted = [c \in Clients |-> FALSE]
  /\ showCelebration = [c \in Clients |-> FALSE]
  /\ gardenItems = [c \in Clients |-> {}]
  /\ gardenOrnaments = [c \in Clients |-> {}]
  /\ inventoryPlants = [c \in Clients |-> EmptyInventory]
  /\ selectedPlantType = [c \in Clients |-> "flower"]
  /\ selectedPlantVariant = [c \in Clients |-> "basic"]
  /\ placingPlant = [c \in Clients |-> FALSE]
  /\ selectedPlant = [c \in Clients |-> NoPlant]
  /\ alertMsg = [c \in Clients |-> "none"]
  /\ hunger_records = <<>>
  /\ cookie_rewards = <<>>
  /\ user_cookie_stats = NoStats
  /\ now = 0
  /\ isHungry = [c \in Clients |-> FALSE]
  /\ currentSession = [c \in Clients |-> NoSession]
  /\ cookieCount = [c \in Clients |-> 0]
  /\ isCooldown = [c \in Clients |-> FALSE]
  /\ rewardLog = [s \in 1..MaxSessions |-> ZeroGrant]
  /\ completeCalls = {}
  /\ ledger = [spent |-> 0, sold |-> 0, last |-> NoOp, rounds |-> 0]

Init == InitWith(InitFlowers, TriggerFns, BOOLEAN)

\* the steps of one tab's TouchGrassTimer
TimerNext(c) ==
  \/ startSession(c)
  \/ completeSession(c)
  \/ cancelSession(c)
  \/ celebrationTimeout(c)
  \/ checkForActiveSession(c)

ClockNext == \E id \in 1..MaxSessions : sessionElapses(id)

\* the steps of one tab's Garden component, but for the click on a grid cell
GardenEdit(c) ==
  \/ gardenMount(c)
  \/ checkAndRemoveExcessFlowers(c, {TRUE})
  \/ \E type \in PickTypes, variant \in PickVariants : handlePlantTypeSelect(c, type, variant)
  \/ handleStartPlacing(c)
  \/ handleCancelPlacing(c)
  \/ \E plant \in gardenItems[c] : handlePlantClick(c, plant)
  \/ handleClosePanel(c)
  \/ handleUpgradePlant(c)
  \/ handleReturnPlantToInventory(c)
  \/ handleSellPlant(c)

\* the steps of one tab's Garden component
GardenNext(c) ==
  \/ GardenEdit(c)
  \/ \E pos \in ClickCells, confirmReplace \in BOOLEAN :
       handleGridCellClick(c, pos, confirmReplace) /\ nextId' <= MaxItems + 1

StockBounded == \A t \in TypeSet, v \in VariantSet : user_plant_inventory[t][v] <= MaxStock

\* a tab whose user plants, returns and replants daisies
ReplantNext(c) ==
  \/ handleStartPlacing(c)
  \/ \E pos \in ClickCells, confirmReplace \in BOOLEAN :
       /\ handleGridCellClick(c, pos, confirmReplace)
       /\ nextId' <= MaxReplants + 1
       /\ StockBounded'
  \/ \E plant \in gardenItems[c] : handlePlantClick(c, plant)
  \/ handleReturnPlantToInventory(c)

\* the steps of one tab's Garden component in the variant without plant
\* inventory; every plant of these behaviours is basic, so Idle and Idle_005 agree
GardenNext_005(c) ==
  \/ checkAndRemoveExcessFlowers_005(c)
  \/ \E type \in PickTypes : handlePlantTypeSelect_005(c, type)
  \/ handleStartPlacing_005(c)
  \/ \E pos \in ClickCells, confirmReplace \in BOOLEAN :
       handleGridCellClick_005(c, pos, confirmReplace) /\ nextId' <= MaxItems + 1
  \/ \E plant \in gardenItems[c] : handlePlantClick(c, plant)
  \/ handleReturnPlantToInventory_005(c)

\* a tab whose user only opens the garden and works in the plant panel
PanelNext(c) ==
  \/ gardenMount(c)
  \/ checkAndRemoveExcessFlowers(c, {TRUE})
  \/ \E plant \in gardenItems[c] : handlePlantClick(c, plant)
  \/ handleClosePanel(c)
  \/ handleUpgradePlant(c)
  \/ handleReturnPlantToInventory(c)
  \/ handleSellPlant(c)

\* the steps of one tab's HungerTracker over a store that accepts every write
CookieNext(c) ==
  \/ hungerMount(c)
  \/ startHunger(c)
  \/ stopHunger(c)
  \/ \E gap \in Gaps :
       earnCookieManually(c, gap, "ok") /\ Cardinality(ManualHunger') <= MaxAwards
  \/ cooldownTimeout(c)

\* a tab whose user opens the garden, picks a plant kind and places it
PlacerNext(c) ==
  \/ gardenMount(c)
  \/ \E type \in PickTypes, variant \in PickVariants : handlePlantTypeSelect(c, type, variant)
  \/ handleStartPlacing(c)
  \/ \E pos \in ClickCells, confirmReplace \in BOOLEAN :
       /\ handleGridCellClick(c, pos, confirmReplace)
       /\ nextId' <= MaxItems + 1
       /\ StockBounded'

\* a tab that loads the garden and creates plants through the hook
HookNext(c) ==
  \/ gardenMount(c)
  \/ \E type \in PickTypes, variant \in PickVariants :
       createNewPlant(c, type, variant) /\ nextId' <= MaxItems + 1

NextGrass == (\E c \in Clients : TimerNext(c)) \/ ClockNext
NextGarden == \E c \in Clients : GardenNext(c)
NextCookie == \E c \in Clients : CookieNext(c)
NextTabs == GardenNext("tabA") \/ PanelNext("tabB")
NextRace == ReplantNext("tabA") \/ PlacerNext("tabB")
NextHook == HookNext("tabA") \/ TimerNext("tabB") \/ ClockNext
NextPage == GardenNext("tabA") \/ TimerNext("tabB") \/ ClockNext

Next == NextGrass \/ NextGarden \/ NextCookie

\* the whole application, two tabs
Spec == Init /\ [][Next]_vars
\* the grass timer in two tabs, every deployed trigger configuration
SpecGrass == InitWith({0}, TriggerFns, BOOLEAN) /\ [][NextGrass]_vars
\* the garden in one tab
SpecGarden == InitWith(InitFlowers, {"update_garden_stats"}, {FALSE}) /\ [][GardenNext("tabA")]_vars
\* the garden in one tab, the plant panel of the garden in a second tab
SpecTabs == InitWith({10}, {"update_garden_stats"}, {FALSE}) /\ [][NextTabs]_vars
\* the garden in one tab, the grass timer in a second tab
SpecPage == InitWith({5}, {"update_garden_stats"}, {FALSE}) /\ [][NextPage]_vars
\* one tab that plants, returns and replants daisies
SpecReplant == InitWith({5}, {"update_garden_stats"}, {FALSE}) /\ [][ReplantNext("tabA")]_vars
\* the garden variant without plant inventory, in one tab
SpecGarden_005 == InitWith({5, 10}, {"update_garden_stats"}, {FALSE})
                    /\ [][GardenNext_005("tabA")]_vars
\* plants created through the hook in one tab, the grass timer in a second tab
SpecHook == InitWith({5}, {"with_ornaments_bonus"}, {FALSE}) /\ [][NextHook]_vars
\* two tabs that place plants
SpecRace == InitWith({10}, {"update_garden_stats"}, {FALSE}) /\ [][NextRace]_vars
\* the hunger tracker in two tabs
SpecCookie == InitWith({0}, {"update_garden_stats"}, {FALSE}) /\ [][NextCookie]_vars

\* the cells of the square of grid cells next to the origin
SquareCells == {<<x, y>> : x \in 0..MaxCoord, y \in 0..MaxCoord}

\* the garden in one tab, over behaviours that create up to MaxReplants rows
\* on the cells of SquareCells
ReconcileNext(c) ==
  \/ GardenEdit(c)
  \/ \E pos \in SquareCells, confirmReplace \in BOOLEAN :
       handleGridCellClick(c, pos, confirmReplace) /\ nextId' <= MaxReplants + 1
SpecReconcile == InitWith({5, 6}, {"update_garden_stats"}, {FALSE})
                   /\ [][ReconcileNext("tabA")]_vars

\* the steps of one tab's HungerTracker over a store whose writes may fail
TrackerNext(c) ==
  \/ hungerMount(c)
  \/ startHunger(c)
  \/ stopHunger(c)
  \/ \E gap \in Gaps, outcome \in CookieOutcomes :
       earnCookieManually(c, gap, outcome) /\ Cardinality(ManualHunger') <= MaxAwards
  \/ cooldownTimeout(c)
\* the hunger tracker in one tab, store writes may fail
SpecTracker == InitWith({0}, {"update_garden_stats"}, {FALSE}) /\ [][TrackerNext("tabA")]_vars

\* one tab that earns manual cookies, each write accepted, and opens the cookie jar
JarNext(c) ==
  \/ \E gap \in Gaps :
       earnCookieManually(c, gap, "ok") /\ Cardinality(ManualHunger') <= MaxJarAwards
  \/ cooldownTimeout(c)
\* the manual cookie button and the cookie jar in one tab
SpecJar == InitWith({0}, {"update_garden_stats"}, {FALSE}) /\ [][JarNext("tabA")]_vars

\* the grass timer in two tabs over the first migration's trigger, the
\* deployment in which the ornament tables may be missing
SpecOutage == InitWith({0}, {"update_garden_stats"}, {FALSE}) /\ [][NextGrass]_vars

\* one tab that buys and replaces plants over a store whose deletes may fail
SettleNext(c) ==
  \/ ReconcileNext(c)
  \/ checkAndRemoveExcessFlowers(c, BOOLEAN)

\* the effect that runs checkAndRemoveExcessFlowers fires after every render
\* in which gardenStats or gardenItems are new objects, that is after every
\* reload: a pending reconciliation round is eventually run
SpecSettle ==
  /\ InitWith({5, 6}, {"update_garden_stats"}, {FALSE})
  /\ [][SettleNext("tabA")]_vars
  /\ WF_vars(checkAndRemoveExcessFlowers("tabA", BOOLEAN))

\* the hunger tracker in one tab, store writes may fail; the browser runs a
\* timeout callback once its 15 seconds have passed
SpecCooldown ==
  /\ InitWith({0}, {"update_garden_stats"}, {FALSE})
  /\ [][TrackerNext("tabA")]_vars
  /\ WF_vars(cooldownTimeout("tabA"))

\* ------------------------------------------------------------- properties

\* C1: once completeSession has been called on a grass session, no later
\* step, a further completeSession call from either tab included, adds to
\* the completed sessions and daisies granted for that session: the total
\* stays that of one completion.
C1_CompletionRewardedOnce ==
  [][\A s \in completeCalls : rewardLog'[s] = rewardLog[s]]_vars

\* C2: the available daisies equal the daisies earned, minus the costs of
\* all purchases and upgrades, plus the values of all sales; nothing else
\* (placing from inventory, replacing, returning, removing excess flowers)
\* moves the balance.
C2_CurrencyConservation ==
  user_garden_stats.flowers_available =
    user_garden_stats.total_flowers_earned - ledger.spent + ledger.sold

\* C3: no grid cell holds more than one row, plants and ornaments counted
\* together.
C3_OneItemPerCell ==
  Cardinality(OccupiedCells(garden_items, garden_ornaments)) =
    Cardinality(garden_items) + Cardinality(garden_ornaments)

\* the length of the run of awards ending at award k whose consecutive gaps
\* are all at most 36 hours
RECURSIVE RunLength(_, _)
RunLength(rewards, k) ==
  IF k = 1 THEN 1
  ELSE IF rewards[k].created_at - rewards[k - 1].created_at <= 36
         THEN RunLength(rewards, k - 1) + 1
         ELSE 1

\* C4: after every award the streak recorded with it is the length of the
\* run of awards ending there whose gaps are all at most 36 hours (exactly 36
\* continues), currentStreak is that of the latest award and longestStreak
\* is the longest run of the whole sequence.
C4_StreakCorrect ==
  LET n == Len(cookie_rewards) IN
  /\ \A k \in 1..n : cookie_rewards[k].streak_count = RunLength(cookie_rewards, k)
  /\ n > 0 =>
       /\ user_cookie_stats.current_streak = RunLength(cookie_rewards, n)
       /\ \E k \in 1..n : user_cookie_stats.longest_streak = RunLength(cookie_rewards, k)
       /\ \A k \in 1..n : user_cookie_stats.longest_streak >= RunLength(cookie_rewards, k)

\* a gap of exactly 36 hours has continued a streak, a longer gap has reset
\* one, and the longest streak is no longer the current one
C4_Witness ==
  /\ Len(cookie_rewards) >= 3
  /\ \E k \in 2..Len(cookie_rewards) :
       /\ cookie_rewards[k].created_at - cookie_rewards[k - 1].created_at = 36
       /\ cookie_rewards[k].streak_count = cookie_rewards[k - 1].streak_count + 1
  /\ user_cookie_stats.longest_streak > user_cookie_stats.current_streak

\* the plants of one kind the user owns: placed rows plus inventory count
Owned(type, variant) ==
  calculateInventoryBreakdown(garden_items)[type][variant]
    + user_plant_inventory[type][variant]

\* the variant a variant is made from
Prerequisite(variant) ==
  CASE variant = "rare" -> "basic"
    [] variant = "epic" -> "rare"
    [] OTHER -> "epic"

\* C5: a step that places a rare, epic or legendary plant of a category other
\* than flower without taking it from the inventory happens only while the
\* user owns a plant of the prerequisite variant of that category, whatever
\* the balance.
C5_PrerequisiteGating ==
  [][\A c \in Clients : \A r \in garden_items' :
       ( /\ placingPlant[c] /\ ~placingPlant'[c]
         /\ nextId' = nextId + 1 /\ r.id = nextId
         /\ r.plant_type # "flower" /\ r.plant_variant # "basic"
         /\ ~useFromInventory(c, Cell(r)) )
       => Owned(r.plant_type, Prerequisite(r.plant_variant)) > 0]_vars

\* C6: the user has at most one grass session whose end time is null.
C6_OneOpenSession ==
  Cardinality({i \in 1..Len(grass_sessions) : ~grass_sessions[i].end_time}) <= 1

\* C7: every step that earns, spends or sells moves the stored balance by
\* exactly its own delta, so that interleaved operations add up and no
\* update is lost.
C7_NoLostUpdate ==
  [][(\/ ledger' # ledger
      \/ user_garden_stats'.total_flowers_earned # user_garden_stats.total_flowers_earned)
     => user_garden_stats'.flowers_available - user_garden_stats.flowers_available =
          (user_garden_stats'.total_flowers_earned - user_garden_stats.total_flowers_earned)
          - (ledger'.spent - ledger.spent) + (ledger'.sold - ledger.sold)]_vars

\* C8: total_cookies equals the number of cookie_rewards rows.
C8_TotalCookiesIsEventCount ==
  (IF user_cookie_stats.found THEN user_cookie_stats.total_cookies ELSE 0)
    = Len(cookie_rewards)

\* C9: a step that completes a grass session adds exactly one completed
\* session, one daisy earned and one daisy available, for both outcomes of
\* the ornament roll.
C9_CompletionGrantsOneDaisy ==
  [][\A s \in 1..Len(grass_sessions) :
       (~grass_sessions[s].completed /\ grass_sessions'[s].completed)
       => user_garden_stats' = ApplyGrant(user_garden_stats, OneGrant)]_vars

\* C10: once a grass session has an end time or is completed, no step
\* changes its completed flag.
C10_TerminalStates ==
  [][\A s \in 1..Len(grass_sessions) :
       (grass_sessions[s].end_time \/ grass_sessions[s].completed)
       => grass_sessions'[s].completed = grass_sessions[s].completed]_vars

\* a grass session row that was cancelled: ended, not completed
Cancelled(s) ==
  /\ s \in 1..Len(grass_sessions)
  /\ grass_sessions[s].end_time
  /\ ~grass_sessions[s].completed

\* C11: the step that cancels a grass session grants nothing for it (no
\* completed session counted, no daisy), and no step taken while the session
\* is cancelled grants anything for it, a completeSession call of a tab that
\* still holds the session included.
C11_CancelNeverGrants ==
  [][\A s \in 1..MaxSessions :
       (Cancelled(s) \/ Cancelled(s)') => rewardLog'[s] = rewardLog[s]]_vars

\* the cost the placement of a plant kind is to debit: the base cost of the
\* type for a basic plant, the step cost of the variant otherwise
ApplicableCost(type, variant) ==
  IF variant = "basic" THEN PLANT_COSTS(type) ELSE upgradeVariantCosts(variant)

\* C12: every step that creates a plant row which is not taken from the
\* inventory lowers flowers_available by the applicable cost of the plant
\* kind, so no veggie, fruit, tree, luck or upgraded plant is created at no cost.
C12_PlacementDebitsCost ==
  [][\A r \in garden_items' :
       (r.id = nextId /\ nextId' = nextId + 1 /\ ~ledger'.last.fromInventory)
         => user_garden_stats'.flowers_available
              = user_garden_stats.flowers_available
                  - ApplicableCost(r.plant_type, r.plant_variant)]_vars

\* the position of a variant in VARIANTS
VariantIndex(variant) == CHOOSE i \in 1..Len(VARIANTS) : VARIANTS[i] = variant

\* the step costs paid to bring a basic plant to the variant at position k
RECURSIVE StepCostsUpTo(_)
StepCostsUpTo(k) ==
  IF k <= 1 THEN 0 ELSE StepCostsUpTo(k - 1) + upgradeVariantCosts(VARIANTS[k])
CumulativeUpgradeCost(variant) == StepCostsUpTo(VariantIndex(variant))

\* the cumulative upgrade costs as the figures 0 / 5 / 20 / 50
StatedCumulativeCost(variant) ==
  CASE variant = "rare" -> 5
    [] variant = "epic" -> 20
    [] variant = "legendary" -> 50
    [] OTHER -> 0

SellBase(type) == IF type = "flower" THEN 1 ELSE PLANT_COSTS(type)

\* a step in which handler op wrote to the store
OpStep(op) == ledger'.last # ledger.last /\ ledger'.last.op = op
\* a step of handleSellPlant
SaleStep == OpStep("sell")
Credited == user_garden_stats'.flowers_available - user_garden_stats.flowers_available

\* C13: for every plant type and variant the sell value is the base cost of
\* the type (1 for a flower) plus the sum of the step costs up to the variant,
\* 0, 5, 15 and 30 for basic, rare, epic and legendary, and every sale credits
\* flowers_available with exactly that value for the plant sold.
SellValueTable ==
  \A t \in TypeSet, v \in VariantSet :
     sellValue(t, v) = SellBase(t) + CumulativeUpgradeCost(v)
C13_SellValue ==
  [][/\ SellValueTable
     /\ SaleStep => Credited = SellBase(ledger'.last.plant_type)
                                 + CumulativeUpgradeCost(ledger'.last.plant_variant)]_vars

\* C13 as stated: every sale credits the base cost of the type plus 0, 5, 20
\* or 50 for a basic, rare, epic or legendary plant.
C13_SellValueAsStated ==
  [][SaleStep => Credited = SellBase(ledger'.last.plant_type)
                              + StatedCumulativeCost(ledger'.last.plant_variant)]_vars

\* a legendary plant has been sold
C13_Witness == ledger.last.op = "sell" /\ ledger.last.plant_variant = "legendary"

\* tab c creates a plant row in this step
PlacementStep(c) == placingPlant[c] /\ ~placingPlant'[c] /\ nextId' = nextId + 1
\* the rows of kind (type, variant) the step removes from the grid
DisplacedOfKind(type, variant) ==
  {r \in garden_items \ garden_items' : r.plant_type = type /\ r.plant_variant = variant}

\* C14: when the inventory holds the selected plant kind, the step that places
\* it takes exactly one unit of that kind from the inventory (a plant of the
\* same kind that the placement displaces is put back) and leaves
\* flowers_available as it was.
C14_InventoryPlacement ==
  [][\A c \in Clients :
       LET type == selectedPlantType[c]
           variant == selectedPlantVariant[c]
       IN (/\ PlacementStep(c)
           /\ inventoryPlants[c][type][variant] > 0
           /\ user_plant_inventory[type][variant] > 0)
          => /\ user_plant_inventory'[type][variant]
                  = user_plant_inventory[type][variant] - 1
                      + Cardinality(DisplacedOfKind(type, variant))
             /\ user_garden_stats'.flowers_available
                  = user_garden_stats.flowers_available]_vars

\* tab c replaces the plant d of the store, at its cell, by a new row
ReplacementStep(c, d) ==
  /\ PlacementStep(c)
  /\ d \in garden_items
  /\ \E r \in garden_items' : r.id = nextId /\ Cell(r) = Cell(d)

\* the unit of kind (type, variant) the placement takes from the inventory
TakenOfKind(type, variant) ==
  IF /\ ledger'.last.fromInventory
     /\ ledger'.last.plant_type = type
     /\ ledger'.last.plant_variant = variant
    THEN 1 ELSE 0

\* C15: a confirmed replacement adds exactly one unit of the displaced plant's
\* kind to the inventory (less the unit the placement itself takes when the new
\* plant is of that kind and comes from the inventory) and leaves the new plant
\* as the only plant of the cell; a click that ends without a placement, the
\* declined confirmation included, writes nothing to the store.
C15_ReplaceReturnsDisplaced ==
  [][\A c \in Clients :
       /\ \A d \in garden_items :
            ReplacementStep(c, d)
              => /\ user_plant_inventory'[d.plant_type][d.plant_variant]
                      = user_plant_inventory[d.plant_type][d.plant_variant] + 1
                          - TakenOfKind(d.plant_type, d.plant_variant)
                 /\ {i.id : i \in {j \in garden_items' : Cell(j) = Cell(d)}} = {nextId}
       /\ (placingPlant[c] /\ placingPlant'[c])
            => UNCHANGED <<garden_items, user_plant_inventory, user_garden_stats>>]_vars

\* C16: the step that returns a placed plant to the inventory leaves no plant
\* in its cell, adds exactly one unit of the plant's kind to the inventory and
\* leaves flowers_available as it was.
C16_ReturnToInventory ==
  [][\A r \in garden_items :
       (OpStep("return") /\ ledger'.last.id = r.id)
         => /\ {i \in garden_items' : Cell(i) = Cell(r)} = {}
            /\ user_plant_inventory'[r.plant_type][r.plant_variant]
                 = user_plant_inventory[r.plant_type][r.plant_variant] + 1
            /\ user_garden_stats'.flowers_available
                 = user_garden_stats.flowers_available]_vars

\* tab c is told that an ornament cannot be replaced by a plant
OrnamentRejection(c) ==
  alertMsg'[c] = "cant_replace_ornament" /\ alertMsg[c] # "cant_replace_ornament"

\* C17: a plant placement on a cell that shows an ornament is rejected and
\* writes nothing to the grid, the inventory or the balance, and no step
\* creates a plant row on a cell that holds an ornament.
C17_NoPlantOnOrnament ==
  [][/\ \A c \in Clients :
          OrnamentRejection(c)
            => UNCHANGED <<garden_items, garden_ornaments, user_plant_inventory,
                           user_garden_stats>>
     /\ \A r \in garden_items' \ garden_items :
          \A o \in garden_ornaments : Cell(o) # Cell(r)]_vars

\* C18: no cell ever holds two plant rows, and a placement on a cell the tab
\* sees empty whose insert fails, because another placement took the cell
\* first, leaves the inventory and flowers_available as they were.
C18_LosingPlacementWritesNothing ==
  [][/\ \A i, j \in garden_items' : Cell(i) = Cell(j) => i = j
     /\ OpStep("insert_failed")
          => UNCHANGED <<user_plant_inventory, user_garden_stats>>]_vars

\* the step cost of upgrading a plant of the given variant: 5, 10 or 15
StatedUpgradeCost(variant) ==
  CASE variant = "basic" -> 5
    [] variant = "rare" -> 10
    [] variant = "epic" -> 15
    [] OTHER -> 0

\* the rows of the store that carry the id of row i after the step
RowAfter(i) == {j \in garden_items' : j.id = i.id}

PrerequisiteVariant(variant) == VARIANTS[VariantIndex(variant) - 1]

\* C20: for every plant type but the flower and every upgraded variant, a tab
\* that has loaded the garden and sees at least one unit of the prerequisite
\* variant in the user's plant inventory finds the prerequisite of the purchase
\* satisfied, also when no such unit is placed on the grid.
C20_InventoryUnitIsPrerequisite ==
  \A c \in Clients, t \in TypeSet \ {"flower"}, v \in VariantSet \ {"basic"} :
     /\ inventoryPlants[c][t][PrerequisiteVariant(v)] > 0
     /\ user_plant_inventory[t][PrerequisiteVariant(v)] > 0
     => hasPrerequisite(calculateInventoryBreakdown(gardenItems[c]), t, v)

\* the flowers the user holds: placed rows and inventory counts, every variant
FlowerUnits ==
  Cardinality({i \in garden_items : i.plant_type = "flower"})
    + user_plant_inventory["flower"]["basic"] + user_plant_inventory["flower"]["rare"]
    + user_plant_inventory["flower"]["epic"] + user_plant_inventory["flower"]["legendary"]

\* a step of tab c's checkAndRemoveExcessFlowers that deletes rows
ReconcileStep(c) == ExcessFlowers(c) > 0 /\ garden_items' # garden_items

\* C21: a reconciliation removes only placed basic flowers, leaves
\* flowers_available and the plant inventory as they are, and ends with no
\* more flowers placed or held in the inventory than flowers_available.
C21_ReconcileRestoresBound ==
  [][ReconcileStep("tabA") =>
       /\ garden_items' \subseteq garden_items
       /\ \A i \in garden_items \ garden_items' :
            i.plant_type = "flower" /\ i.plant_variant = "basic"
       /\ UNCHANGED <<user_garden_stats, user_plant_inventory>>
       /\ FlowerUnits' <= user_garden_stats'.flowers_available]_vars

\* the rows a step deletes
RemovedRows == garden_items \ garden_items'

\* C22: the basic flowers a reconciliation removes are the most recently
\* placed ones: every basic flower it leaves on the grid was created before
\* (has a smaller id than) every row it removes.
C22_ReconcileRemovesNewest ==
  [][ReconcileStep("tabA") =>
       \A r \in RemovedRows, k \in garden_items' :
          k.plant_type = "flower" /\ k.plant_variant = "basic" => k.id < r.id]_vars

\* the cookie_rewards rows that refer to hunger record i
CookiesOf(i) == {k \in 1..Len(cookie_rewards) : cookie_rewards[k].hunger_record_id = i}

\* a step that closes an open hunger record
StopStep ==
  \E i \in 1..Len(hunger_records) :
     /\ ~hunger_records[i].end_time
     /\ Len(hunger_records') = Len(hunger_records)
     /\ hunger_records'[i].end_time

\* every cookie refers to a completed hunger record that no other cookie refers to
OwnCompletedRecord ==
  \A k \in 1..Len(cookie_rewards) :
     /\ cookie_rewards[k].hunger_record_id \in 1..Len(hunger_records)
     /\ hunger_records[cookie_rewards[k].hunger_record_id].end_time
     /\ CookiesOf(cookie_rewards[k].hunger_record_id) = {k}

C24_AchievementsStayUnlocked ==
  [][/\ unlockedAchievements(user_cookie_stats) = sharedAchievements(user_cookie_stats)
     /\ unlockedAchievements(user_cookie_stats)
          \subseteq unlockedAchievements(user_cookie_stats')]_vars

\* completeSession runs on session id for the first time in this step
CompletionStep(id) == id \notin completeCalls /\ id \in completeCalls'

\* C25: whatever the store answers in the ornament branch (probe, reads,
\* insert), the first completeSession on a session marks the row ended and
\* completed, the trigger's grant of one session and one flower reaches
\* user_garden_stats, and the tab running the session shows the completed
\* state; at most one ornament row is added and none is changed or removed.
C25_CompletionSurvivesOrnamentFailure ==
  [][\A id \in 1..Len(grass_sessions) :
       CompletionStep(id) =>
         /\ grass_sessions'[id] = [end_time |-> TRUE, completed |-> TRUE]
         /\ user_garden_stats' = ApplyGrant(user_garden_stats, OneGrant)
         /\ \E c \in Clients : /\ activeSession'[c] = id
                                /\ isCompleted'[c]
                                /\ showCelebration'[c]
         /\ garden_ornaments \subseteq garden_ornaments'
         /\ Cardinality(garden_ornaments') <= Cardinality(garden_ornaments) + 1]_vars

\* two sessions have been completed and rewarded, and the ornament of the
\* second stands on the cell of the first: its read of garden_ornaments failed
C25_Witness ==
  /\ \E o1, o2 \in garden_ornaments : o1 # o2 /\ Cell(o1) = Cell(o2)
  /\ user_garden_stats.flowers_available >= 2
  /\ \E c \in Clients : isCompleted[c]

\* C26: with no grass session completed, a single tab that starts from an
\* empty grid and an empty inventory never holds more available daisies than
\* it started with (the start balance is total_flowers_earned, which no
\* garden handler writes).
C26_NeverRicherThanAtStart ==
  user_garden_stats.flowers_available <= user_garden_stats.total_flowers_earned

Units(type, variant) ==
  Cardinality({i \in garden_items : i.plant_type = type /\ i.plant_variant = variant})
    + user_plant_inventory[type][variant]

\* a step of a placement from the inventory, a return to the inventory or a
\* replacement, completed or failed
InventoryOpStep ==
  /\ ledger'.last # ledger.last
  /\ \/ ledger'.last.op \in {"return", "replace", "replace_failed"}
     \/ ledger'.last.fromInventory

\* the unit of kind (type, variant) a completed replacement pays for
BoughtOfKind(type, variant) ==
  IF /\ ledger'.last.op = "replace"
     /\ ~ledger'.last.fromInventory
     /\ ledger'.last.plant_type = type
     /\ ledger'.last.plant_variant = variant
    THEN 1 ELSE 0

\* C28: with two tabs of one user, a placement from the inventory, a return to
\* the inventory and a replacement leave the number of placed plus inventoried
\* units of every plant kind as it was (a replacement that buys its new plant
\* adds that one unit), and no inventory count is ever negative.
C28_InventoryOpsConserveUnits ==
  [][/\ InventoryOpStep =>
          \A t \in TypeSet, v \in VariantSet :
             Units(t, v)' = Units(t, v) + BoughtOfKind(t, v)
     /\ \A t \in TypeSet, v \in VariantSet : user_plant_inventory'[t][v] >= 0]_vars

\* C29: whatever the store answers to each delete, a tab whose loaded garden
\* shows more basic flowers than flowers_available runs finitely many
\* delete-and-reload rounds: it reaches a state in which
\* checkAndRemoveExcessFlowers has nothing to delete and reloads nothing.
C29_ReconciliationSettles ==
  (ExcessFlowers("tabA") > 0) ~> (ExcessFlowers("tabA") <= 0)

====
